---- MODULE Spec2Model ----
(***************************************************************************)
(* WpaSupplicantNetworkManager (src/src/wpa/wpasupplicantnetworkmanager.cpp) *)
(* as a state machine: the peer table, the current peer and its state      *)
(* machine, the DHCP pair, the GLib timers, and the supervision of the     *)
(* wpa_supplicant child process.  Every handler of the class is one action.*)
(***************************************************************************)
EXTENDS Integers, Sequences, FiniteSets, TLC

(* ------------------------------ bounds -------------------------------- *)
\* Peer objects the allocator can hand out at once.
MaxPeers == 2
\* GLib source ids available to each kind of timer (ids pending at once).
MaxTimers == 2
\* Supplicant child processes alive at once.
MaxChildren == 2

(* ---------------------------- input domains --------------------------- *)
Addresses == {"a1", "a2"}
\* name= values of P2P-DEVICE-FOUND.
Names == {"n1"}
\* Role tokens of P2P-GROUP-STARTED: the owner token, the client token and
\* a token of another supplicant build.
Roles == {"GO", "client", "other"}
\* reason= values of P2P-GROUP-REMOVED.
Reasons == {"FORMATION_FAILED", "PSK_FAILURE", "FREQ_CONFLICT", "REQUESTED"}
\* Values an int member left out of the constructor's initialiser list can
\* hold: negative, zero, positive.
UninitInt == {-1, 0, 1}

(* ------------------------- program constants -------------------------- *)
kSupplicantRespawnLimit == 10
NullPtr == 0

PeerIds == 1..MaxPeers
TimerIds == 1..MaxTimers

\* mcs::NetworkDeviceState
kIdle == "idle"
kFailure == "failure"
kAssociation == "association"
kConfiguration == "configuration"
kConnected == "connected"
kDisconnected == "disconnected"

\* An unallocated slot of the heap of NetworkDevice objects.
FreePeer == [address |-> "none", name |-> "none", state |-> "free"]

VARIABLES
    heap,               \* PeerIds -> NetworkDevice object (or FreePeer)
    available_devices_, \* address -> NetworkDevice::Ptr (PeerIds or NullPtr)
    current_peer_,      \* NetworkDevice::Ptr
    is_group_owner_,
    dhcp_client_,       \* DHCP client running
    dhcp_server_,       \* DHCP server running
    dhcp_timeout_,      \* stored GLib source id of the DHCP timeout, 0 = none
    dhcp_timers,        \* ids of pending OnGroupClientDhcpTimeout sources
    failure_timers,     \* number of pending OnDeviceFailureTimeout sources
    firmware,           \* firmware loader: "unneeded", "idle", "loading", "loaded"
    setup_called,
    supplicant_pid_,
    children,           \* live supplicant child processes (each watched)
    connect_timers,     \* number of pending OnConnectSupplicant sources
    sock_,
    channel_,           \* TRUE iff channel_ is not nullptr
    channel_watch_,     \* stored id of the io watch, 0 = none
    io_watches,         \* ids of live OnIncomingMessages watches
    respawn_limit_,
    respawn_source_,    \* stored id of the respawn timer, 0 = none
    respawn_timers,     \* ids of pending OnSupplicantRespawn sources
    event,              \* the handler that ran last and its inputs
    notified,           \* delegate callbacks made by that handler, in order
    enqueued,           \* requests that handler handed to RequestAsync, in order
    delegate_devices,   \* addresses reported found and not lost since the last Reset
    crashed             \* the process died on an invalid memory access

peer_vars == <<heap, available_devices_, current_peer_, is_group_owner_,
               dhcp_client_, dhcp_server_, dhcp_timeout_, dhcp_timers,
               failure_timers>>
sup_vars == <<firmware, setup_called, supplicant_pid_, children, connect_timers,
              sock_, channel_, channel_watch_, io_watches, respawn_limit_,
              respawn_source_, respawn_timers>>
out_vars == <<event, notified, enqueued, delegate_devices, crashed>>
vars == <<peer_vars, sup_vars, out_vars>>

(* ------------------------------ helpers ------------------------------- *)
Range(f) == {f[x] : x \in DOMAIN f}

Min(S) == CHOOSE x \in S : \A y \in S : x <= y

\* Mutant of Orders: an iteration may visit an element twice and skip another.
OrdersWithRepeats(S) == [1..Cardinality(S) -> S]

\* Sequences that list every element of S exactly once (an iteration order
\* of an unordered_map).
Orders(S) ==
    {s \in [1..Cardinality(S) -> S] : \A i, j \in 1..Cardinality(S) : s[i] = s[j] => i = j}

\* g_timeout_add / g_io_add_watch: the id of the new source.  Ids are
\* names of pending sources; a stored handle is overwritten by every call
\* that adds a source of its kind, so an id that is no longer pending can
\* name a new source without a stale handle ever meeting it.
FreshIds(pending) == TimerIds \ pending
NewSourceId(pending) == Min(FreshIds(pending))

\* new mcs::NetworkDevice followed by SetAddress and SetName.
NewNetworkDevice(address, name) ==
    [address |-> address, name |-> name, state |-> kIdle]

\* NetworkDevice::SetState through a non-null pointer.
SetState(h, p, s) == [h EXCEPT ![p].state = s]

\* shared_ptr reference counting: an object no pointer of the manager
\* refers to is destroyed.
Release(h, table, cur) ==
    [p \in PeerIds |-> IF p \in Range(table) \cup {cur} THEN h[p] ELSE FreePeer]

\* What the delegate is handed: the callback, the pointer, and the address
\* and state the pointee has at the time of the call.
Callback(cb, h, p) ==
    [cb |-> cb, peer |-> p,
     address |-> IF p = NullPtr THEN "none" ELSE h[p].address,
     state |-> IF p = NullPtr THEN "none" ELSE h[p].state]

Event(op, arg, arg2) == [op |-> op, arg |-> arg, arg2 |-> arg2]

\* DhcpClient::Start / DhcpServer::Start and ::Stop.
DhcpStart == TRUE
DhcpStop == FALSE

\* available_devices_ with no entry.
EmptyTable == [a \in {} |-> NullPtr]

(* ------------------------------- Init --------------------------------- *)
Init ==
    /\ heap = [p \in PeerIds |-> FreePeer]
    /\ available_devices_ = EmptyTable
    /\ current_peer_ = NullPtr
    /\ is_group_owner_ = FALSE
    /\ dhcp_client_ = FALSE
    /\ dhcp_server_ = FALSE
    /\ dhcp_timeout_ = 0
    /\ dhcp_timers = {}
    /\ failure_timers = 0
    /\ firmware \in {"unneeded", "idle"}
    /\ setup_called = FALSE
    /\ supplicant_pid_ \in UninitInt
    /\ children = 0
    /\ connect_timers = 0
    /\ sock_ \in UninitInt
    /\ channel_ = FALSE
    /\ channel_watch_ = 0
    /\ io_watches = {}
    /\ respawn_limit_ = kSupplicantRespawnLimit
    /\ respawn_source_ = 0
    /\ respawn_timers = {}
    /\ event = Event("constructed", "", "")
    /\ notified = <<>>
    /\ enqueued = <<>>
    /\ delegate_devices = {}
    /\ crashed = FALSE

(* ---------------------- outputs of one handler ------------------------ *)
\* The delegate's view of the table after the callbacks `calls`: addresses
\* handed to OnDeviceFound are added, those handed to OnDeviceLost removed.
Delivered(dd, calls) ==
    (dd \cup {calls[i].address : i \in {j \in DOMAIN calls : calls[j].cb = "OnDeviceFound"}})
        \ {calls[i].address : i \in {j \in DOMAIN calls : calls[j].cb = "OnDeviceLost"}}

Outputs(op, arg, arg2, calls, requests) ==
    /\ event' = Event(op, arg, arg2)
    /\ notified' = calls
    /\ enqueued' = requests
    /\ delegate_devices' = Delivered(delegate_devices, calls)
    /\ crashed' = FALSE

\* An access through a null pointer that the hardware traps: the process is
\* gone and no handler runs again.
Fault(op, arg, arg2) ==
    /\ event' = Event(op, arg, arg2)
    /\ notified' = <<>>
    /\ enqueued' = <<>>
    /\ crashed' = TRUE
    /\ UNCHANGED <<peer_vars, sup_vars, delegate_devices>>

\* Unsolicited events reach the manager through OnIncomingMessages only,
\* that is while an io watch on the control socket is live.
Delivering == ~crashed /\ io_watches # {}

(* --------------------------- peer discovery --------------------------- *)
\* available_devices_.find(address) != available_devices_.end()
Known(address) == address \in DOMAIN available_devices_

NullEntries == {a \in DOMAIN available_devices_ : available_devices_[a] = NullPtr}

Matching(address) ==
    {a \in DOMAIN available_devices_ :
        /\ available_devices_[a] # NullPtr
        /\ heap[available_devices_[a]].address = address}

FreeSlots == {p \in PeerIds : heap[p] = FreePeer}

\* The lookup loop found the peer: it is updated in place.
DeviceFoundUpdate(address, name) ==
    /\ Matching(address) # {}
    /\ \E a \in Matching(address) :
          heap' = [heap EXCEPT ![available_devices_[a]].address = address,
                               ![available_devices_[a]].name = name]
    /\ UNCHANGED available_devices_
    /\ Outputs("OnP2pDeviceFound", address, name, <<>>, <<>>)

\* The lookup loop ran to its end: a new peer is stored under the address.
DeviceFoundInsert(address, name) ==
    /\ Matching(address) = {}
    /\ FreeSlots # {}
    /\ LET p == Min(FreeSlots) IN
          /\ heap' = [heap EXCEPT ![p] = NewNetworkDevice(address, name)]
          /\ available_devices_' =
                [a \in DOMAIN available_devices_ \cup {address} |->
                    IF a = address THEN p ELSE available_devices_[a]]
          /\ Outputs("OnP2pDeviceFound", address, name,
                     <<Callback("OnDeviceFound", heap', p)>>, <<>>)

\* The loop calls peer->Address() on every entry it visits.  A null entry
\* (left by OnP2pDeviceLost) visited before the match is a null dereference:
\* the process faults, or the access goes unnoticed and the loop continues.
OnP2pDeviceFound(address, name) ==
    /\ Delivering
    /\ \/ DeviceFoundUpdate(address, name)
       \/ DeviceFoundInsert(address, name)
       \/ NullEntries # {} /\ Fault("OnP2pDeviceFound", address, name)
    /\ UNCHANGED <<current_peer_, is_group_owner_, dhcp_client_, dhcp_server_,
                   dhcp_timeout_, dhcp_timers, failure_timers, sup_vars>>

\* available_devices_[address]: operator[] of the map default-constructs a
\* null entry for a missing key.  A known peer is reported lost; its entry stays.
\* Mutant of LostTable: the entry of a lost peer is erased.
LostTableErasing(address) ==
    [a \in DOMAIN available_devices_ \ {address} |-> available_devices_[a]]

LostTable(address) ==
    [a \in DOMAIN available_devices_ \cup {address} |->
        IF a \in DOMAIN available_devices_ THEN available_devices_[a] ELSE NullPtr]

OnP2pDeviceLost(address) ==
    /\ Delivering
    /\ available_devices_' = LostTable(address)
    /\ LET peer == IF Known(address) THEN available_devices_[address] ELSE NullPtr IN
          Outputs("OnP2pDeviceLost", address, "",
                  IF peer = NullPtr THEN <<>> ELSE <<Callback("OnDeviceLost", heap, peer)>>,
                  <<>>)
    /\ UNCHANGED <<heap, current_peer_, is_group_owner_, dhcp_client_, dhcp_server_,
                   dhcp_timeout_, dhcp_timers, failure_timers, sup_vars>>

(* ------------------------------ Connect ------------------------------- *)
\* WpaSupplicantMessage::CreateRequest("P2P_CONNECT") << address << "pbc"
ConnectRequest(address) == <<"P2P_CONNECT", address, "pbc">>

\* Connect(device): `address` is device->Address().  The boolean the code
\* returns is written by the reply handler after the return, so every call
\* returns false; whether the call was accepted shows in its effects.
\* Mutant of ConnectRefused: the test for an existing current peer is missing.
ConnectRefusedUnknownOnly(address) == ~Known(address)

\* The two early returns of Connect().
ConnectRefused(address) == ~Known(address) \/ current_peer_ # NullPtr

Connect(address) ==
    /\ ~crashed
    /\ IF ConnectRefused(address)
       THEN /\ UNCHANGED current_peer_
            /\ Outputs("Connect", address, "", <<>>, <<>>)
       ELSE /\ current_peer_' = available_devices_[address]
            /\ Outputs("Connect", address, "", <<>>, <<ConnectRequest(address)>>)
    /\ UNCHANGED <<heap, available_devices_, is_group_owner_, dhcp_client_,
                   dhcp_server_, dhcp_timeout_, dhcp_timers, failure_timers, sup_vars>>

\* Scan(timeout): P2P_FIND <timeout>
Scan ==
    /\ ~crashed
    /\ Outputs("Scan", "", "", <<>>, << <<"P2P_FIND">> >>)
    /\ UNCHANGED <<peer_vars, sup_vars>>

\* DisconnectAll(): P2P_GROUP_REMOVE <interface>
DisconnectAll ==
    /\ ~crashed
    /\ Outputs("DisconnectAll", "", "", <<>>, << <<"P2P_GROUP_REMOVE", "p2p0">> >>)
    /\ UNCHANGED <<peer_vars, sup_vars>>

(* ---------------------------- group events ---------------------------- *)
\* Mutant of IsGroupOwnerRole: every token but "client" counts as owner.
IsGroupOwnerRoleNotClient(role) == role # "client"

\* role == "GO"
IsGroupOwnerRole(role) == role = "GO"

\* The else branch: the local node is a client of the group.  g_timeout_add
\* overwrites the id kept in dhcp_timeout_; the source it named is not removed.
GroupStartedAsClient(h1, first, role) ==
    /\ is_group_owner_' = FALSE
    /\ heap' = h1
    /\ dhcp_client_' = DhcpStart
    /\ FreshIds(dhcp_timers) # {}
    /\ dhcp_timeout_' = NewSourceId(dhcp_timers)
    /\ dhcp_timers' = dhcp_timers \cup {dhcp_timeout_'}
    /\ Outputs("OnP2pGroupStarted", role, "", <<first>>, <<>>)
    /\ UNCHANGED dhcp_server_

\* Mutant of GroupStartedAsOwner: the branches of the role test are swapped.
GroupStartedRoleSwapped(h1, first, role) == GroupStartedAsClient(h1, first, role)

\* The branch of role "GO": the local node owns the group.
GroupStartedAsOwner(h1, first, role) ==
    /\ is_group_owner_' = TRUE
    /\ heap' = SetState(h1, current_peer_, kConnected)
    /\ dhcp_server_' = DhcpStart
    /\ Outputs("OnP2pGroupStarted", role, "",
               <<first, Callback("OnDeviceStateChanged", heap', current_peer_)>>, <<>>)
    /\ UNCHANGED <<dhcp_client_, dhcp_timeout_, dhcp_timers>>

OnP2pGroupStarted(role) ==
    /\ Delivering
    /\ IF current_peer_ = NullPtr
       THEN /\ Outputs("OnP2pGroupStarted", role, "", <<>>, <<>>)
            /\ UNCHANGED <<heap, is_group_owner_, dhcp_client_, dhcp_server_,
                           dhcp_timeout_, dhcp_timers>>
       ELSE LET h1 == SetState(heap, current_peer_, kConfiguration)
                first == Callback("OnDeviceStateChanged", h1, current_peer_)
            IN  IF IsGroupOwnerRole(role)
                THEN GroupStartedAsOwner(h1, first, role)
                ELSE GroupStartedAsClient(h1, first, role)
    /\ UNCHANGED <<available_devices_, current_peer_, failure_timers, sup_vars>>

\* The static lookup table of OnP2pGroupRemoved.
RemovedState(reason) ==
    IF reason \in {"FORMATION_FAILED", "PSK_FAILURE", "FREQ_CONFLICT"}
    THEN kFailure ELSE kDisconnected

\* The guard at the top of the handler: if (current_peer_.get()) return;
GroupRemovedReturnsEarly == current_peer_ # NullPtr

\* Past the guard the handler sets the state the reason maps to through
\* current_peer_, notifies the delegate and resets current_peer_.  With the
\* guard as written current_peer_ is null there: the write faults, or it
\* goes unnoticed and the delegate is handed the null pointer.
OnP2pGroupRemoved(reason) ==
    /\ Delivering
    /\ IF GroupRemovedReturnsEarly
       THEN /\ Outputs("OnP2pGroupRemoved", reason, "", <<>>, <<>>)
            /\ UNCHANGED <<peer_vars, sup_vars>>
       ELSE \/ /\ current_peer_ = NullPtr
               /\ Fault("OnP2pGroupRemoved", reason, "")
            \/ /\ heap' = IF current_peer_ = NullPtr THEN heap
                          ELSE SetState(heap, current_peer_, RemovedState(reason))
               /\ Outputs("OnP2pGroupRemoved", reason, "",
                          <<Callback("OnDeviceStateChanged", heap', current_peer_)>>, <<>>)
               /\ current_peer_' = NullPtr
               /\ UNCHANGED <<available_devices_, is_group_owner_, dhcp_client_,
                              dhcp_server_, dhcp_timeout_, dhcp_timers, failure_timers,
                              sup_vars>>

(* ------------------------ DHCP callbacks, timers ---------------------- *)
\* g_source_remove(id): the source is no longer pending (no effect when the
\* id names no pending source).
SourceRemove(pending, id) == pending \ {id}

OnAddressAssigned ==
    /\ ~crashed
    /\ IF current_peer_ = NullPtr
       THEN /\ Outputs("OnAddressAssigned", "", "", <<>>, <<>>)
            /\ UNCHANGED peer_vars
       ELSE /\ IF dhcp_timeout_ > 0
               THEN /\ dhcp_timers' = SourceRemove(dhcp_timers, dhcp_timeout_)
                    /\ dhcp_timeout_' = 0
               ELSE UNCHANGED <<dhcp_timers, dhcp_timeout_>>
            /\ heap' = SetState(heap, current_peer_, kConnected)
            /\ Outputs("OnAddressAssigned", "", "",
                       <<Callback("OnDeviceStateChanged", heap', current_peer_)>>, <<>>)
            /\ UNCHANGED <<available_devices_, current_peer_, is_group_owner_,
                           dhcp_client_, dhcp_server_, failure_timers>>
    /\ UNCHANGED sup_vars

\* Mutant of DhcpTimeoutState: the timeout reports the peer disconnected.
DhcpTimeoutStateDisconnected == kDisconnected

\* inst->current_peer_->SetState(mcs::kFailure)
DhcpTimeoutState == kFailure

\* The source `id` fires; the handler returns FALSE, which removes the
\* source.  dhcp_timeout_ keeps the id.
OnGroupClientDhcpTimeout(id) ==
    /\ ~crashed
    /\ id \in dhcp_timers
    /\ dhcp_timers' = dhcp_timers \ {id}
    /\ IF current_peer_ = NullPtr
       THEN /\ Outputs("OnGroupClientDhcpTimeout", "", "", <<>>, <<>>)
            /\ UNCHANGED <<heap, failure_timers>>
       ELSE /\ failure_timers < MaxTimers
            /\ heap' = SetState(heap, current_peer_, DhcpTimeoutState)
            /\ failure_timers' = failure_timers + 1
            /\ Outputs("OnGroupClientDhcpTimeout", "", "",
                       <<Callback("OnDeviceStateChanged", heap', current_peer_)>>, <<>>)
    /\ UNCHANGED <<available_devices_, current_peer_, is_group_owner_, dhcp_client_,
                   dhcp_server_, dhcp_timeout_, sup_vars>>

\* A pending cooldown fires.  The handler writes through current_peer_
\* without a test: with a null current_peer_ the process faults, or the
\* write goes unnoticed.
OnDeviceFailureTimeout ==
    /\ ~crashed
    /\ failure_timers > 0
    /\ IF current_peer_ # NullPtr
       THEN /\ failure_timers' = failure_timers - 1
            /\ heap' = SetState(heap, current_peer_, kIdle)
            /\ Outputs("OnDeviceFailureTimeout", "", "", <<>>, <<>>)
            /\ UNCHANGED <<available_devices_, current_peer_, is_group_owner_,
                           dhcp_client_, dhcp_server_, dhcp_timeout_, dhcp_timers, sup_vars>>
       ELSE \/ Fault("OnDeviceFailureTimeout", "", "")
            \/ /\ failure_timers' = failure_timers - 1
               /\ Outputs("OnDeviceFailureTimeout", "", "", <<>>, <<>>)
               /\ UNCHANGED <<heap, available_devices_, current_peer_, is_group_owner_,
                              dhcp_client_, dhcp_server_, dhcp_timeout_, dhcp_timers,
                              sup_vars>>

(* ------------------------------- Reset -------------------------------- *)
\* Reset(), run on behalf of handler `op`: the current peer, if any, is
\* reported disconnected and dropped with its DHCP state; then every entry
\* of the table is reported lost, in the map's iteration order, and the
\* table is cleared.
\* Mutant of ClearedTable: the table is not cleared.
ClearedTableKept == available_devices_

\* available_devices_.clear()
ClearedTable == EmptyTable

Reset(op, arg) ==
    LET cur == current_peer_
        h1 == IF cur # NullPtr THEN SetState(heap, cur, kDisconnected) ELSE heap
        first == IF cur # NullPtr
                 THEN <<Callback("OnDeviceStateChanged", h1, cur)>> ELSE <<>>
    IN  /\ current_peer_' = NullPtr
        /\ IF cur # NullPtr
           THEN /\ IF dhcp_timeout_ > 0
                   THEN /\ dhcp_timers' = SourceRemove(dhcp_timers, dhcp_timeout_)
                        /\ dhcp_timeout_' = 0
                   ELSE UNCHANGED <<dhcp_timers, dhcp_timeout_>>
                /\ dhcp_client_' = DhcpStop
                /\ dhcp_server_' = DhcpStop
           ELSE UNCHANGED <<dhcp_timers, dhcp_timeout_, dhcp_client_, dhcp_server_>>
        /\ \E order \in Orders(DOMAIN available_devices_) :
              Outputs(op, arg, "",
                      first \o [i \in DOMAIN order |->
                                  Callback("OnDeviceLost", h1, available_devices_[order[i]])],
                      <<>>)
        /\ available_devices_' = ClearedTable
        /\ heap' = Release(h1, available_devices_', NullPtr)
        /\ is_group_owner_' = FALSE
        /\ UNCHANGED failure_timers

(* ----------------------- supplicant supervision ----------------------- *)
\* StopSupplicant(): g_spawn_close_pid releases the handle, the child is
\* not signalled.
StoppedPid(pid) == IF pid < 0 THEN pid ELSE 0

\* Running()
Running == supplicant_pid_ > 0

\* StartSupplicant(): `ok` is whether the config file was written and
\* g_spawn_async succeeded.  On success the new child is watched and a
\* 500 ms connect timer is added.
StartSupplicant(ok) ==
    IF ok
    THEN /\ children < MaxChildren
         /\ connect_timers < MaxTimers
         /\ supplicant_pid_' = 1
         /\ children' = children + 1
         /\ connect_timers' = connect_timers + 1
    ELSE UNCHANGED <<supplicant_pid_, children, connect_timers>>

\* DisconnectSupplicant()
DisconnectSupplicant ==
    IF sock_ < 0
    THEN UNCHANGED <<sock_, channel_, channel_watch_, io_watches>>
    ELSE /\ channel_' = FALSE
         /\ io_watches' = IF channel_watch_ > 0
                          THEN SourceRemove(io_watches, channel_watch_) ELSE io_watches
         /\ channel_watch_' = 0
         /\ sock_' = 0

\* Mutant of Decrement: the counter counts up.
Increment(n) == n + 1

\* respawn_limit_--
Decrement(n) == n - 1

\* Mutant of BudgetLeft: a spent budget still counts as budget.
BudgetLeftOrSpent(n) == n >= 0

\* if (respawn_limit_ > 0)
BudgetLeft(n) == n > 0

\* The respawn part of HandleSupplicantFailed().
ScheduleRespawn ==
    IF BudgetLeft(respawn_limit_)
    THEN LET kept == IF respawn_source_ # 0
                     THEN SourceRemove(respawn_timers, respawn_source_)
                     ELSE respawn_timers
         IN  /\ FreshIds(kept) # {}
             /\ respawn_source_' = NewSourceId(kept)
             /\ respawn_timers' = kept \cup {respawn_source_'}
             /\ respawn_limit_' = Decrement(respawn_limit_)
    ELSE UNCHANGED <<respawn_timers, respawn_source_, respawn_limit_>>

HandleSupplicantFailed(op, arg) ==
    /\ ScheduleRespawn
    /\ DisconnectSupplicant
    /\ supplicant_pid_' = StoppedPid(supplicant_pid_)
    /\ Reset(op, arg)

\* Setup(): the firmware loader's IsNeeded() decides between starting the
\* supplicant and TryLoad().
Setup(ok) ==
    /\ ~crashed
    /\ ~setup_called
    /\ setup_called' = TRUE
    /\ IF firmware = "unneeded"
       THEN StartSupplicant(ok) /\ UNCHANGED firmware
       ELSE /\ ok
            /\ firmware' = "loading"
            /\ UNCHANGED <<supplicant_pid_, children, connect_timers>>
    /\ Outputs("Setup", "", "", <<>>, <<>>)
    /\ UNCHANGED <<peer_vars, sock_, channel_, channel_watch_, io_watches,
                   respawn_limit_, respawn_source_, respawn_timers>>

OnFirmwareLoaded(ok) ==
    /\ ~crashed
    /\ firmware = "loading"
    /\ firmware' = "loaded"
    /\ StartSupplicant(ok)
    /\ Outputs("OnFirmwareLoaded", "", "", <<>>, <<>>)
    /\ UNCHANGED <<peer_vars, setup_called, sock_, channel_, channel_watch_,
                   io_watches, respawn_limit_, respawn_source_, respawn_timers>>

OnFirmwareUnloaded ==
    /\ ~crashed
    /\ firmware = "loaded"
    /\ supplicant_pid_' = StoppedPid(supplicant_pid_)
    /\ firmware' = "loading"
    /\ Outputs("OnFirmwareUnloaded", "", "", <<>>, <<>>)
    /\ UNCHANGED <<peer_vars, setup_called, children, connect_timers, sock_, channel_,
                   channel_watch_, io_watches, respawn_limit_, respawn_source_,
                   respawn_timers>>

\* The child watch fires: a child has exited with `status`.
OnSupplicantWatch(status) ==
    /\ ~crashed
    /\ children > 0
    /\ children' = children - 1
    /\ IF status # "0"
       THEN HandleSupplicantFailed("OnSupplicantWatch", status)
       ELSE /\ Outputs("OnSupplicantWatch", status, "", <<>>, <<>>)
            /\ UNCHANGED <<peer_vars, supplicant_pid_, sock_, channel_, channel_watch_,
                           io_watches, respawn_limit_, respawn_source_, respawn_timers>>
    /\ UNCHANGED <<firmware, setup_called, connect_timers>>

\* Mutant of FireAgain: the timer repeats for as long as the start fails.
FireAgainWhileFailing(ok) == ~ok

\* !inst->StartSupplicant() && inst->respawn_limit_ > 0
FireAgain(ok) == ~ok /\ respawn_limit_ > 0

\* The respawn timer fires.  TRUE is returned (the source stays) only when
\* the start failed and budget is left.
OnSupplicantRespawn(ok) ==
    /\ ~crashed
    /\ \E id \in respawn_timers :
          /\ StartSupplicant(ok)
          /\ IF FireAgain(ok)
             THEN /\ respawn_limit_' = Decrement(respawn_limit_)
                  /\ UNCHANGED respawn_timers
             ELSE /\ respawn_timers' = respawn_timers \ {id}
                  /\ UNCHANGED respawn_limit_
    /\ Outputs("OnSupplicantRespawn", IF ok THEN "started" ELSE "failed", "", <<>>, <<>>)
    /\ UNCHANGED <<peer_vars, firmware, setup_called, sock_, channel_, channel_watch_,
                   io_watches, respawn_source_>>

\* Mutant of AttachRequests: wifi_display is set before ATTACH.
AttachRequestsSetFirst ==
    << <<"SET", "wifi_display", "1">>, <<"ATTACH">>,
       <<"WFD_SUBELEM_SET", "0", "000600101C440032">> >>

\* The requests ConnectSupplicant() enqueues once the socket is up.
AttachRequests ==
    << <<"ATTACH">>, <<"SET", "wifi_display", "1">>,
       <<"WFD_SUBELEM_SET", "0", "000600101C440032">> >>

\* A connect timer fires and runs ConnectSupplicant().  `outcome` is the
\* step that failed ("socket", "bind", "connect") or "ok"; the socket can
\* be connected only while a supplicant process is listening.  A failed
\* attempt returns TRUE from the timer, which keeps it.
OnConnectSupplicant(outcome) ==
    /\ ~crashed
    /\ connect_timers > 0
    /\ IF outcome = "ok"
       THEN /\ children > 0
            /\ sock_' = 1
            /\ channel_' = TRUE
            /\ FreshIds(io_watches) # {}
            /\ channel_watch_' = NewSourceId(io_watches)
            /\ io_watches' = io_watches \cup {channel_watch_'}
            /\ respawn_limit_' = kSupplicantRespawnLimit
            /\ connect_timers' = connect_timers - 1
            /\ Outputs("OnConnectSupplicant", outcome, "", <<>>, AttachRequests)
       ELSE /\ sock_' = IF outcome = "socket" THEN -1 ELSE 1
            /\ Outputs("OnConnectSupplicant", outcome, "", <<>>, <<>>)
            /\ UNCHANGED <<channel_, channel_watch_, io_watches, respawn_limit_,
                           connect_timers>>
    /\ UNCHANGED <<peer_vars, firmware, setup_called, supplicant_pid_, children,
                   respawn_source_, respawn_timers>>

\* OnIncomingMessages with G_IO_HUP: StopSupplicant() and nothing else; the
\* watch stays.
OnHangup ==
    /\ ~crashed
    /\ io_watches # {}
    /\ supplicant_pid_' = StoppedPid(supplicant_pid_)
    /\ Outputs("OnIncomingMessages", "HUP", "", <<>>, <<>>)
    /\ UNCHANGED <<peer_vars, firmware, setup_called, children, connect_timers, sock_,
                   channel_, channel_watch_, io_watches, respawn_limit_, respawn_source_,
                   respawn_timers>>

(* ---------------------------- specification --------------------------- *)
ExitStatuses == {"0", "1"}
ConnectOutcomes == {"ok", "socket", "bind", "connect"}

\* The DHCP client reports a lease only after it has been started.
LeaseObtained == dhcp_client_

\* The operations of the coordinator: supplicant events, the calls of the
\* upper layer, the DHCP callback and the two peer timers.
Coordinator ==
    \/ \E address \in Addresses, name \in Names : OnP2pDeviceFound(address, name)
    \/ \E address \in Addresses : OnP2pDeviceLost(address)
    \/ \E role \in Roles : OnP2pGroupStarted(role)
    \/ \E reason \in Reasons : OnP2pGroupRemoved(reason)
    \/ \E address \in Addresses : Connect(address)
    \/ LeaseObtained /\ OnAddressAssigned
    \/ \E id \in TimerIds : OnGroupClientDhcpTimeout(id)
    \/ OnDeviceFailureTimeout

\* Supervision when the platform cooperates: the supplicant is spawned,
\* the connect attempt succeeds, and once the session is up the child may
\* die at any time with a non-zero status, after which it is respawned.
SessionUp == io_watches # {}

Supervision ==
    \/ Setup(TRUE)
    \/ OnConnectSupplicant("ok")
    \/ SessionUp /\ OnSupplicantWatch("1")
    \/ OnSupplicantRespawn(TRUE)

Next == Supervision \/ Coordinator

Spec == Init /\ [][Next]_vars

\* Reset() called on its own, as the coordinator operation it is; the
\* event records whether the handler before it was Reset() as well.
ResetCall ==
    /\ ~crashed
    /\ Reset("Reset", IF event.op = "Reset" THEN "again" ELSE "first")
    /\ UNCHANGED sup_vars

\* A session that stays up: the supplicant is started and attached to.
Session ==
    \/ Setup(TRUE)
    \/ OnConnectSupplicant("ok")

NextReset == Session \/ Coordinator \/ ResetCall

ResetSpec == Init /\ [][NextReset]_vars

\* Supervision with every outcome the platform can produce: a start or a
\* connect attempt may fail, the child may exit with any status at any
\* time, the firmware may be unloaded, the control socket may hang up.
FullSupervision ==
    \/ \E ok \in BOOLEAN : Setup(ok)
    \/ \E ok \in BOOLEAN : OnFirmwareLoaded(ok)
    \/ OnFirmwareUnloaded
    \/ \E status \in ExitStatuses : OnSupplicantWatch(status)
    \/ \E ok \in BOOLEAN : OnSupplicantRespawn(ok)
    \/ \E outcome \in ConnectOutcomes : OnConnectSupplicant(outcome)
    \/ OnHangup

\* What fills the peer table and sets the current peer while the
\* supervisor is at work.
PeerActivity ==
    \/ \E address \in Addresses, name \in Names : OnP2pDeviceFound(address, name)
    \/ Connect("a1")

NextSupervisor == FullSupervision \/ PeerActivity

SupervisorSpec == Init /\ [][NextSupervisor]_vars

\* The respawn loop on a platform where the first start succeeds and every
\* later start fails (the binary or the interface is gone): the session
\* comes up or not, the child exits, and the respawn timer fires.
NextRespawnLoop ==
    \/ Setup(TRUE)
    \/ \E outcome \in ConnectOutcomes : OnConnectSupplicant(outcome)
    \/ \E status \in ExitStatuses : OnSupplicantWatch(status)
    \/ OnSupplicantRespawn(FALSE)
    \/ PeerActivity

\* The GLib main loop dispatches a pending timeout source: a respawn timer
\* that stays pending fires.
RespawnLoopSpec ==
    Init /\ [][NextRespawnLoop]_vars /\ WF_vars(OnSupplicantRespawn(FALSE))

(* ============================== claims ================================ *)
NonNullEntries == {a \in DOMAIN available_devices_ : available_devices_[a] # NullPtr}

NonIdlePeers == {a \in NonNullEntries : heap[available_devices_[a]].state # kIdle}

CurrentState == heap[current_peer_].state

ConnectedCalls(calls) == {i \in DOMAIN calls : calls[i].state = kConnected}

\* C1: in every reachable state at most one peer of the peer table is in a
\* state other than idle, and that peer is the current peer.
C1_AtMostOneNonIdlePeer ==
    /\ Cardinality(NonIdlePeers) <= 1
    /\ \A a \in NonIdlePeers : available_devices_[a] = current_peer_

\* C1 witness: two peers are in the table, one of them is not idle, and a
\* connect to the other one has just been refused.
C1_Witness ==
    /\ Cardinality(NonNullEntries) = 2
    /\ Cardinality(NonIdlePeers) = 1
    /\ event.op = "Connect"
    /\ event.arg \in NonNullEntries \ NonIdlePeers

\* C2: in every reachable state the current peer, when non-null, is present
\* in the peer table under its own address.
C2_CurrentPeerInTable ==
    current_peer_ # NullPtr =>
        \E a \in DOMAIN available_devices_ :
            /\ available_devices_[a] = current_peer_
            /\ heap[current_peer_].address = a

\* C2 witness: P2P-DEVICE-LOST has just been handled for the address of the
\* current peer.
C2_Witness ==
    /\ current_peer_ # NullPtr
    /\ event.op = "OnP2pDeviceLost"
    /\ event.arg = heap[current_peer_].address

\* C3: whenever current_peer_ is non-null its state is one of association,
\* configuration, connected, failure, disconnected (never idle) and it is
\* the table entry at its address.
C3_CurrentPeerNeverIdle ==
    current_peer_ # NullPtr =>
        /\ CurrentState \in {kAssociation, kConfiguration, kConnected, kFailure,
                             kDisconnected}
        /\ heap[current_peer_].address \in DOMAIN available_devices_
        /\ available_devices_[heap[current_peer_].address] = current_peer_

\* C4: at all times the set of addresses in the peer table is exactly the
\* set delivered by on_device_found minus those delivered by on_device_lost
\* since the last reset.
C4_TableIsFoundMinusLost == DOMAIN available_devices_ = delegate_devices

\* C5: exactly one of DHCP client and DHCP server is running iff the current
\* peer's state is configuration or connected (the server iff the local role
\* is Group Owner), and both are stopped otherwise.
C5_DhcpFollowsPeerState ==
    IF current_peer_ # NullPtr /\ CurrentState \in {kConfiguration, kConnected}
    THEN /\ dhcp_client_ # dhcp_server_
         /\ dhcp_server_ <=> is_group_owner_
    ELSE ~dhcp_client_ /\ ~dhcp_server_

\* C6: connect(device) fails, leaving the current peer and the peer table
\* unchanged and enqueuing no request, if the address is not in the peer
\* table or a current peer already exists; otherwise it sets the current
\* peer to the non-null table entry at that address and enqueues exactly
\* the one request P2P_CONNECT <address> pbc.
C6_ConnectContract ==
    [][event'.op = "Connect" =>
        IF event'.arg \notin DOMAIN available_devices_ \/ current_peer_ # NullPtr
        THEN /\ UNCHANGED <<current_peer_, available_devices_, heap>>
             /\ enqueued' = <<>>
        ELSE /\ current_peer_' = available_devices_[event'.arg]
             /\ current_peer_' # NullPtr
             /\ UNCHANGED <<available_devices_, heap>>
             /\ enqueued' = << <<"P2P_CONNECT", event'.arg, "pbc">> >>]_vars

\* C7: when P2P-GROUP-REMOVED arrives while a current peer exists, the
\* peer's state becomes failure for the reasons FORMATION_FAILED,
\* PSK_FAILURE and FREQ_CONFLICT and disconnected for any other reason, the
\* delegate is notified of that state, and afterwards the current peer is
\* cleared, the DHCP timeout is cancelled, both DHCP sides are stopped and
\* the role flag is false.
C7_GroupRemovedWithPeer ==
    [][event'.op = "OnP2pGroupRemoved" /\ current_peer_ # NullPtr =>
        LET terminal == IF event'.arg \in {"FORMATION_FAILED", "PSK_FAILURE",
                                           "FREQ_CONFLICT"}
                        THEN kFailure ELSE kDisconnected
        IN  /\ heap'[current_peer_].state = terminal
            /\ notified' = <<[cb |-> "OnDeviceStateChanged", peer |-> current_peer_,
                              address |-> heap[current_peer_].address,
                              state |-> terminal]>>
            /\ current_peer_' = NullPtr
            /\ dhcp_timeout_' = 0
            /\ dhcp_timeout_ \notin dhcp_timers'
            /\ ~dhcp_client_' /\ ~dhcp_server_'
            /\ ~is_group_owner_']_vars

\* C8: P2P-GROUP-REMOVED received while no current peer exists is a no-op:
\* nothing is read or written through the null current peer, no delegate
\* callback is made, and the table, the timers, the DHCP sides and the role
\* flag are unchanged.
C8_GroupRemovedWithoutPeer ==
    [][event'.op = "OnP2pGroupRemoved" /\ current_peer_ = NullPtr =>
        /\ ~crashed'
        /\ notified' = <<>>
        /\ UNCHANGED peer_vars]_vars

\* C9: when P2P-GROUP-STARTED with role GO arrives while a current peer
\* exists, the delegate is notified first of state configuration and then
\* of state connected for the current peer, the role flag becomes true, the
\* DHCP server is started, and the handler neither starts the DHCP client
\* nor arms a DHCP-acquisition timeout.
C9_GroupStartedAsOwner ==
    [][event'.op = "OnP2pGroupStarted" /\ event'.arg = "GO" /\ current_peer_ # NullPtr =>
        /\ notified' =
              <<[cb |-> "OnDeviceStateChanged", peer |-> current_peer_,
                 address |-> heap[current_peer_].address, state |-> kConfiguration],
                [cb |-> "OnDeviceStateChanged", peer |-> current_peer_,
                 address |-> heap[current_peer_].address, state |-> kConnected]>>
        /\ current_peer_' = current_peer_
        /\ heap'[current_peer_].state = kConnected
        /\ is_group_owner_'
        /\ dhcp_server_'
        /\ dhcp_client_' = dhcp_client_
        /\ dhcp_timers' = dhcp_timers
        /\ dhcp_timeout_' = dhcp_timeout_]_vars

\* C9 witness: P2P-GROUP-STARTED GO has just been handled for a current
\* peer on which no client-side DHCP was running: the peer is connected,
\* the server runs, the client does not and no timeout is pending.
C9_Witness ==
    /\ event.op = "OnP2pGroupStarted" /\ event.arg = "GO"
    /\ current_peer_ # NullPtr
    /\ CurrentState = kConnected
    /\ Len(notified) = 2
    /\ is_group_owner_ /\ dhcp_server_ /\ ~dhcp_client_
    /\ dhcp_timers = {}

\* What the handler of a P2P-GROUP-STARTED with a role token other than GO
\* does while a current peer exists.
C10_ClientStep ==
    event'.op = "OnP2pGroupStarted" /\ event'.arg # "GO" /\ current_peer_ # NullPtr =>
        /\ notified' =
              <<[cb |-> "OnDeviceStateChanged", peer |-> current_peer_,
                 address |-> heap[current_peer_].address, state |-> kConfiguration]>>
        /\ current_peer_' = current_peer_
        /\ heap'[current_peer_].state = kConfiguration
        /\ ~is_group_owner_'
        /\ dhcp_client_'
        /\ dhcp_server_' = dhcp_server_
        /\ dhcp_timeout_' \notin dhcp_timers
        /\ dhcp_timers' = dhcp_timers \cup {dhcp_timeout_'}

\* C10 (as stated): when P2P-GROUP-STARTED with any role token other than
\* exactly GO arrives while a current peer exists, the current peer is set
\* to configuration and notified, the role flag becomes false, the DHCP
\* client is started, the DHCP server is not started and the DHCP timeout
\* is armed; the peer is not reported connected until on_address_assigned.
C10_ClientUntilAddressAssigned ==
    [][/\ C10_ClientStep
       /\ (current_peer_ # NullPtr /\ CurrentState = kConfiguration
              /\ ConnectedCalls(notified') # {})
            => event'.op = "OnAddressAssigned"]_vars

\* C10 (amended): the same, except that the peer in configuration is not
\* reported connected until on_address_assigned or a later
\* P2P-GROUP-STARTED with role GO.
C10_ClientUntilAddressOrOwner ==
    [][/\ C10_ClientStep
       /\ (current_peer_ # NullPtr /\ CurrentState = kConfiguration
              /\ ConnectedCalls(notified') # {})
            => \/ event'.op = "OnAddressAssigned"
               \/ event'.op = "OnP2pGroupStarted" /\ event'.arg = "GO"]_vars

\* C10 witness: a P2P-GROUP-STARTED with a role token that is neither GO
\* nor client has just been handled: the peer is in configuration, the
\* client runs and the timeout kept in dhcp_timeout_ is pending.
C10_Witness ==
    /\ event.op = "OnP2pGroupStarted" /\ event.arg = "other"
    /\ current_peer_ # NullPtr
    /\ CurrentState = kConfiguration
    /\ notified # <<>>
    /\ ~is_group_owner_ /\ dhcp_client_ /\ ~dhcp_server_
    /\ dhcp_timeout_ \in dhcp_timers


\* C11: on_address_assigned is a no-op (no state change, no notification,
\* timers untouched) if no current peer exists; otherwise no
\* DHCP-acquisition timeout is pending afterwards, the current peer is
\* connected and the delegate is notified exactly once, of that state.
C11_AddressAssigned ==
    [][event'.op = "OnAddressAssigned" =>
        IF current_peer_ = NullPtr
        THEN /\ notified' = <<>>
             /\ UNCHANGED <<peer_vars, sup_vars>>
        ELSE /\ dhcp_timers' = {}
             /\ dhcp_timeout_' = 0
             /\ current_peer_' = current_peer_
             /\ heap'[current_peer_].state = kConnected
             /\ notified' =
                   <<[cb |-> "OnDeviceStateChanged", peer |-> current_peer_,
                      address |-> heap[current_peer_].address,
                      state |-> kConnected]>>]_vars

\* C12: when the DHCP-acquisition timeout fires, nothing changes if no
\* current peer exists; otherwise the current peer is set to failure, the
\* delegate is notified of the failure state and one peer-failure cooldown
\* is armed.
C12_DhcpTimeoutFires ==
    [][event'.op = "OnGroupClientDhcpTimeout" =>
        IF current_peer_ = NullPtr
        THEN /\ notified' = <<>>
             /\ UNCHANGED <<heap, available_devices_, current_peer_, is_group_owner_,
                            dhcp_client_, dhcp_server_, dhcp_timeout_, failure_timers,
                            sup_vars>>
        ELSE /\ current_peer_' = current_peer_
             /\ heap'[current_peer_].state = kFailure
             /\ notified' =
                   <<[cb |-> "OnDeviceStateChanged", peer |-> current_peer_,
                      address |-> heap[current_peer_].address,
                      state |-> kFailure]>>
             /\ failure_timers' = failure_timers + 1]_vars

\* C12 witness: the timeout has just fired for a current peer: the peer is
\* in failure, the delegate has been told and a cooldown is pending.
C12_Witness ==
    /\ event.op = "OnGroupClientDhcpTimeout"
    /\ current_peer_ # NullPtr
    /\ CurrentState = kFailure
    /\ Len(notified) = 1
    /\ failure_timers > 0

\* The timeout has just fired with no current peer.
C12_FiredWithoutPeer ==
    /\ event.op = "OnGroupClientDhcpTimeout"
    /\ current_peer_ = NullPtr
    /\ ~crashed

\* C13: when the peer-failure cooldown fires and the peer that failed is
\* still the current peer, that peer is demoted to idle and the delegate is
\* notified of the state change.
C13_CooldownDemotesAndNotifies ==
    [][event'.op = "OnDeviceFailureTimeout" /\ ~crashed'
          /\ current_peer_ # NullPtr /\ CurrentState = kFailure =>
        /\ heap'[current_peer_].state = kIdle
        /\ notified' =
              <<[cb |-> "OnDeviceStateChanged", peer |-> current_peer_,
                 address |-> heap[current_peer_].address, state |-> kIdle]>>]_vars


\* The positions of `calls` that hand pointer p to callback cb.
CallsFor(calls, cb, p) == {i \in DOMAIN calls : calls[i].cb = cb /\ calls[i].peer = p}

C15_ResetIdempotent ==
    [][event'.op = "Reset" /\ event'.arg = "again" =>
        /\ notified' = <<>>
        /\ UNCHANGED <<heap, available_devices_, current_peer_, is_group_owner_,
                       dhcp_client_, dhcp_server_, dhcp_timeout_, dhcp_timers>>]_vars

\* C15 witness: reset() has just run for the second time in a row.
C15_Witness ==
    /\ event.op = "Reset" /\ event.arg = "again"
    /\ available_devices_ = EmptyTable
    /\ current_peer_ = NullPtr


\* What the handler of P2P-DEVICE-FOUND is to do with the address and the
\* name of the event.
C16_FoundStep ==
    event'.op = "OnP2pDeviceFound" =>
        /\ ~crashed'
        /\ IF event'.arg \in DOMAIN available_devices_
           THEN /\ available_devices_' = available_devices_
                /\ available_devices_[event'.arg] # NullPtr
                /\ heap'[available_devices_[event'.arg]] =
                      [heap[available_devices_[event'.arg]] EXCEPT !.name = event'.arg2]
                /\ notified' = <<>>
           ELSE /\ DOMAIN available_devices_' = DOMAIN available_devices_ \cup {event'.arg}
                /\ \A a \in DOMAIN available_devices_ :
                      available_devices_'[a] = available_devices_[a]
                /\ available_devices_'[event'.arg] # NullPtr
                /\ heap[available_devices_'[event'.arg]] = FreePeer
                /\ heap'[available_devices_'[event'.arg]] =
                      [address |-> event'.arg, name |-> event'.arg2, state |-> kIdle]
                /\ notified' =
                      <<[cb |-> "OnDeviceFound", peer |-> available_devices_'[event'.arg],
                         address |-> event'.arg, state |-> kIdle]>>

\* C16: on P2P-DEVICE-FOUND, if the address is already in the table the
\* existing peer is updated in place, the table's key set is unchanged and
\* on_device_found is not invoked; otherwise a new peer in state idle is
\* inserted under that address and on_device_found is invoked exactly once
\* for it.
C16_DeviceFoundContract == [][C16_FoundStep]_vars

\* C16 restricted to tables free of null entries (the entries
\* P2P-DEVICE-LOST leaves for unknown addresses).
C16_DeviceFoundWithoutNullEntries == [][NullEntries = {} => C16_FoundStep]_vars

\* C17: P2P-DEVICE-LOST for an address that is absent from the peer table
\* is ignored: no delegate callback is made and the peer table is left
\* unchanged, in particular no null entry is created for that address.
C17_LostUnknownIgnored ==
    [][event'.op = "OnP2pDeviceLost" /\ event'.arg \notin DOMAIN available_devices_ =>
        /\ notified' = <<>>
        /\ UNCHANGED <<available_devices_, heap, current_peer_>>]_vars


\* C18: the respawn counter never increases except on a successful connect
\* to the supplicant control socket, which sets it to its maximum (10); no
\* other operation (start, stop, reset, respawn handler, failure handler)
\* increases it, and it stays within 0..10.
C18_RespawnCounterMonotone ==
    [][/\ respawn_limit_' \in 0..kSupplicantRespawnLimit
       /\ respawn_limit_' > respawn_limit_ =>
              event'.op = "OnConnectSupplicant" /\ event'.arg = "ok"
       /\ event'.op = "OnConnectSupplicant" /\ event'.arg = "ok" =>
              respawn_limit_' = kSupplicantRespawnLimit]_vars

\* C18 witness: a connect has just succeeded after a failure had been
\* handled (respawn_source_ is set by the failure handler only): the
\* counter, decremented by the failure, is back at its maximum.
C18_Witness ==
    /\ event.op = "OnConnectSupplicant" /\ event.arg = "ok"
    /\ respawn_source_ # 0
    /\ respawn_limit_ = kSupplicantRespawnLimit

\* The counter has been run down to zero.
C18_BudgetExhausted == respawn_limit_ = 0

\* C19: when the supplicant child exits with non-zero status, the failure
\* handler schedules a respawn iff the respawn budget is non-zero and in
\* that case decrements the budget by exactly one; in every case no
\* transport is live afterwards, the supplicant is stopped, and reset has
\* run (on_device_lost for every entry of the table, table emptied).
C19_FailureHandling ==
    [][event'.op = "OnSupplicantWatch" /\ event'.arg # "0" =>
        /\ IF respawn_limit_ > 0
           THEN /\ respawn_limit_' = respawn_limit_ - 1
                /\ respawn_source_' \in respawn_timers'
                /\ respawn_source_' \notin (respawn_timers \ {respawn_source_})
           ELSE /\ respawn_limit_' = respawn_limit_
                /\ respawn_timers' \subseteq respawn_timers
        /\ io_watches' = {}
        /\ ~channel_'
        /\ supplicant_pid_' = 0
        /\ Cardinality({i \in DOMAIN notified' : notified'[i].cb = "OnDeviceLost"}) =
              Cardinality(DOMAIN available_devices_)
        /\ available_devices_' = EmptyTable
        /\ current_peer_' = NullPtr]_vars


\* C20 (as stated): once the respawn budget is exhausted (counter is 0), no
\* respawn timer is armed and start is not called again by the supervisor,
\* until a successful connect or an external re-initialisation restores the
\* budget.
C20_NoRespawnAtZero ==
    [][respawn_limit_ = 0 =>
        /\ respawn_timers' \subseteq respawn_timers
        /\ event'.op # "OnSupplicantRespawn"]_vars

\* C20 (amended): with the counter at 0 no respawn timer is armed; a respawn
\* timer that was pending when the counter reached 0 still fires, calls
\* start once and is gone; with the counter at 0 and no respawn timer
\* pending the supervisor starts no supplicant, until a successful connect
\* or an external re-initialisation (Setup, firmware loaded) restores the
\* budget.
C20_NoRespawnAtZeroOncePendingFired ==
    [][respawn_limit_ = 0 =>
        /\ respawn_timers' \subseteq respawn_timers
        /\ event'.op = "OnSupplicantRespawn" =>
              /\ respawn_timers # {}
              /\ Cardinality(respawn_timers') = Cardinality(respawn_timers) - 1
        /\ (respawn_timers = {} /\ children' > children) =>
              event'.op \in {"Setup", "OnFirmwareLoaded"}]_vars

\* C20 witness: the failure handler has just run with the budget exhausted:
\* the counter is 0 and no respawn timer is pending.
C20_Witness ==
    /\ event.op = "OnSupplicantWatch" /\ event.arg # "0"
    /\ respawn_limit_ = 0
    /\ respawn_timers = {}


\* C21: running() is true iff a supplicant child process is live: after
\* every step that spawns a child, sees a child exit (with zero or non-zero
\* status), stops the supplicant or handles a socket hangup, running()
\* equals "a child is live".
C21_RunningIffChildLive ==
    [][(children' # children
           \/ event'.op \in {"OnFirmwareUnloaded", "OnIncomingMessages"}) =>
        (Running' <=> children' > 0)]_vars

\* C22: on transport_down, a hangup on the control socket or a child exit,
\* the supplicant is stopped, a respawn is scheduled if budget remains,
\* coordinator state is reset and on_device_lost is emitted for every peer.
C22_TransportDownHandsOver ==
    [][(event'.op = "OnSupplicantWatch"
           \/ (event'.op = "OnIncomingMessages" /\ event'.arg = "HUP")) =>
        /\ ~Running'
        /\ respawn_limit_ > 0 =>
              /\ respawn_source_' \in respawn_timers'
              /\ respawn_limit_' = respawn_limit_ - 1
        /\ available_devices_' = EmptyTable
        /\ current_peer_' = NullPtr
        /\ Cardinality({i \in DOMAIN notified' : notified'[i].cb = "OnDeviceLost"}) =
              Cardinality(DOMAIN available_devices_)]_vars

\* C23: at most one supplicant session exists and at most one supplicant
\* child process is live at any time, under every interleaving of setup,
\* firmware loaded and unloaded, child exits and respawn-timer firings.
C23_OneSessionOneChild ==
    /\ children <= 1
    /\ Cardinality(io_watches) <= 1

\* C23, the part about the session only.
C23_OneSession == Cardinality(io_watches) <= 1

\* C23, the part about the child only.
C23_OneChild == children <= 1

\* C24: at most one instance of each of the three timers (DHCP-acquisition
\* timeout, peer-failure cooldown, supplicant-respawn delay) is pending at
\* any time.
C24_TimersSingleInstance ==
    /\ Cardinality(dhcp_timers) <= 1
    /\ failure_timers <= 1
    /\ Cardinality(respawn_timers) <= 1

\* C24, the respawn delay only.
C24_OneRespawnTimer == Cardinality(respawn_timers) <= 1


\* C25: a failed connect attempt keeps its timer (the attempt is repeated),
\* enqueues nothing and leaves the respawn limit unchanged; a successful
\* attempt ends the repetition, enqueues ATTACH, then SET wifi_display 1,
\* then WFD_SUBELEM_SET 0 000600101C440032, in that order, and sets the
\* respawn limit to 10.
C25_ConnectAttempt ==
    [][event'.op = "OnConnectSupplicant" =>
        IF event'.arg = "ok"
        THEN /\ connect_timers' = connect_timers - 1
             /\ enqueued' = << <<"ATTACH">>, <<"SET", "wifi_display", "1">>,
                               <<"WFD_SUBELEM_SET", "0", "000600101C440032">> >>
             /\ respawn_limit_' = 10
             /\ io_watches' # {}
        ELSE /\ connect_timers' = connect_timers
             /\ connect_timers' > 0
             /\ enqueued' = <<>>
             /\ respawn_limit_' = respawn_limit_
             /\ io_watches' = io_watches]_vars

\* C25 witness: a connect attempt has just succeeded after the budget had
\* been touched by a failure: the three requests are enqueued, the limit is
\* 10 and the timer of the attempt is gone.
C25_Witness ==
    /\ event.op = "OnConnectSupplicant" /\ event.arg = "ok"
    /\ Len(enqueued) = 3
    /\ enqueued[1] = <<"ATTACH">>
    /\ respawn_limit_ = 10
    /\ respawn_source_ # 0
    /\ connect_timers = 0

\* A connect attempt has just failed with part of the budget spent.
C25_FailedAttempt ==
    /\ event.op = "OnConnectSupplicant" /\ event.arg # "ok"
    /\ respawn_limit_ < 10
    /\ connect_timers > 0


\* C26: once the current peer has been reported as failure or disconnected
\* it is not afterwards reported as configuration or connected unless a new
\* connect() has been made: no handler reports a current peer that is in
\* failure or disconnected as configuration or connected.
C26_NoProgressAfterFailure ==
    [][(current_peer_ # NullPtr /\ CurrentState \in {kFailure, kDisconnected}) =>
        \A i \in DOMAIN notified' :
            ~(/\ notified'[i].peer = current_peer_
              /\ notified'[i].state \in {kConfiguration, kConnected})]_vars

\* C26, the case the claim names: on_address_assigned after the DHCP
\* timeout has set the peer to failure does not report it connected.
C26_LateAddressIgnored ==
    [][(event'.op = "OnAddressAssigned" /\ current_peer_ # NullPtr
           /\ CurrentState = kFailure) =>
        notified' = <<>>]_vars

\* C27: the peer-failure cooldown handler never runs while the current peer
\* is null, or its firing is then a no-op: no cooldown is pending while the
\* current peer is null, so no null current peer is dereferenced.
C27_NoCooldownWithoutPeer ==
    /\ ~(event.op = "OnDeviceFailureTimeout" /\ crashed)
    /\ current_peer_ = NullPtr => failure_timers = 0

\* C27, the dereference only: a cooldown that fires with a null current
\* peer does not fault.
C27_CooldownNeverFaults == ~(event.op = "OnDeviceFailureTimeout" /\ crashed)

\* C28: a finished connection attempt frees the current-peer slot: a
\* connect() to a peer of the table that directly follows P2P-GROUP-REMOVED
\* or the firing of the failure cooldown is accepted (it sets the current
\* peer and enqueues P2P_CONNECT).
C28_ConnectAfterFinishedAttempt ==
    [][(/\ event'.op = "Connect"
        /\ event.op \in {"OnP2pGroupRemoved", "OnDeviceFailureTimeout"}
        /\ ~crashed
        /\ event'.arg \in NonNullEntries) =>
        /\ current_peer_' = available_devices_[event'.arg]
        /\ enqueued' = << <<"P2P_CONNECT", event'.arg, "pbc">> >>]_vars

\* C29: the stored DHCP-timeout handle is non-zero iff a DHCP-acquisition
\* timer is pending, and then it names a pending timer.
C29_HandleIffPending ==
    /\ dhcp_timeout_ # 0 => dhcp_timeout_ \in dhcp_timers
    /\ dhcp_timers # {} => dhcp_timeout_ # 0

\* C30: at most one connect-attempt timer is pending at any time, none is
\* pending right after the supplicant has been stopped or has failed, and
\* two connect loops never both open a control socket.
C30_OneConnectLoop ==
    /\ connect_timers <= 1
    /\ event.op \in {"OnSupplicantWatch", "OnFirmwareUnloaded"} => connect_timers = 0
    /\ Cardinality(io_watches) <= 1

\* C30, the part about a failed supplicant only.
C30_NoLoopAfterFailure ==
    (event.op = "OnSupplicantWatch" /\ event.arg # "0") => connect_timers = 0


\* C28, the cooldown only: a connect() to a peer of the table that directly
\* follows the firing of the failure cooldown is accepted.
C28_ConnectAfterCooldown ==
    [][(/\ event'.op = "Connect"
        /\ event.op = "OnDeviceFailureTimeout"
        /\ ~crashed
        /\ event'.arg \in NonNullEntries) =>
        enqueued' = << <<"P2P_CONNECT", event'.arg, "pbc">> >>]_vars


\* What one firing of the respawn handler whose start fails does to the
\* budget and to the timer: with budget left it consumes one unit and the
\* timer repeats; with the budget at 0 the timer stops repeating.
C31_FailedFiring ==
    (event'.op = "OnSupplicantRespawn" /\ event'.arg = "failed") =>
        IF respawn_limit_ > 0
        THEN /\ respawn_limit_' = respawn_limit_ - 1
             /\ respawn_timers' = respawn_timers
        ELSE /\ respawn_limit_' = 0
             /\ Cardinality(respawn_timers') = Cardinality(respawn_timers) - 1

====
